---------------------------- MODULE Spec2Model ----------------------------
(***************************************************************************)
(* A model of scripts/generate-icon.py: the colour interpolation helper,   *)
(* the composition of the 1024x1024 master canvas, the ICO container       *)
(* serializer and the main driver that writes the fixed artifact set.      *)
(*                                                                         *)
(* Four specifications share the variables of this module:                 *)
(*   SpecLerp     lerp_color on colours of the script's palette            *)
(*   SpecIco      create_ico on bounded lists of images                    *)
(*   SpecCompose  create_nebula_icon, layer by layer                       *)
(*   Spec         main, file by file                                       *)
(* Each specification leaves the variables of the others at their idle     *)
(* values.                                                                 *)
(***************************************************************************)
EXTENDS Integers, Sequences, FiniteSets, TLC

VARIABLES
    \* ---- lerp_color ----
    lc1, lc2,        \* the two colour arguments
    lt,              \* the fraction t, as the numerator of lt / TDen
    largs,           \* the arguments as they were passed (to observe mutation)
    lout,            \* the returned tuple
    lpc              \* "call" | "returned" | "idle"

VARIABLES
    \* ---- create_ico ----
    images,          \* the list of images passed in
    num_images,      \* len(images)
    header,          \* the packed 6-byte header
    image_data_list, \* the PNG payload of each image
    directory,       \* the directory bytes built so far
    current_offset,  \* offset of the next payload
    ii,              \* index of the directory loop (1-based; i + 1 of the code)
    icoFile,         \* the bytes of the file at ico_path
    ipc              \* position in create_ico

VARIABLES
    \* ---- create_nebula_icon ----
    canvas,          \* img: its dimensions and the value of the sample pixels
    cpc,             \* position in create_nebula_icon
    ck,              \* index of the loop the position is in (1-based)
    font,            \* the loaded glyph resource, "none" before loading
    fontAvail,       \* which of the three candidates this machine can load
    tried,           \* the candidates truetype() was called on, in order
    rng,             \* state of the process-wide random generator
    sparkle_colors,  \* the sparkle colours drawn in this call
    paintLog,        \* the layers painted in this call, in order
    run,             \* 1 for the first call in the process, 2 for the second
    firstColors,     \* the sparkle colours of the first call
    rngAtEntry       \* the generator state each call started with

VARIABLES
    \* ---- main ----
    mpc,             \* position in main
    mk,              \* index into the sizes table (1-based)
    master,          \* the image create_nebula_icon returned
    composed,        \* the value master had when it was returned
    composeCalls,    \* how many times create_nebula_icon was called
    written,         \* the files written completely, in order
    doneReported     \* whether the final "Done!" line was printed

lerpVars == <<lc1, lc2, lt, largs, lout, lpc>>

icoVars == <<images, num_images, header, image_data_list, directory,
             current_offset, ii, icoFile, ipc>>

compVars == <<canvas, cpc, ck, font, fontAvail, tried, rng, sparkle_colors,
              paintLog, run, firstColors, rngAtEntry>>

mainVars == <<mpc, mk, master, composed, composeCalls, written, doneReported>>

vars == <<lerpVars, icoVars, compVars, mainVars>>

-----------------------------------------------------------------------------
(* Generic helpers *)

Min(a, b) == IF a <= b THEN a ELSE b

Abs(x) == IF x >= 0 THEN x ELSE -x

Range(s) == {s[k] : k \in 1..Len(s)}

-----------------------------------------------------------------------------
(* lerp_color, lines 21-23 *)

\* t ranges over the fractions k / TDen, k in 0..TDen.  With TDen = 4 the
\* products (b - a) * t are exact in binary floating point, so the exact
\* rational arithmetic below is what the interpreter computes.
TDen == 4

\* Python's int() on a number num / den: truncation toward zero.
IntTrunc(num, den) ==
    IF num >= 0 THEN num \div den ELSE -((-num) \div den)

\* Rounding half up: what int() does NOT do.
IntRound(num, den) == (2 * num + den) \div (2 * den)

lerp_color_rounding(c1, c2, t) ==
    [k \in 1..Min(Len(c1), Len(c2)) |->
        IntRound(c1[k] * TDen + (c2[k] - c1[k]) * t, TDen)]

\* tuple(int(a + (b - a) * t) for a, b in zip(c1, c2))
lerp_color(c1, c2, t) ==
    [k \in 1..Min(Len(c1), Len(c2)) |->
        IntTrunc(c1[k] * TDen + (c2[k] - c1[k]) * t, TDen)]

\* The colours the script interpolates between (lines 114-118, 170-171) and
\* the extremes of the channel range.
BLUE == <<60, 120, 255>>
PURPLE == <<160, 60, 220>>
PINK == <<230, 60, 160>>
ORANGE == <<255, 160, 30>>
RED_ORANGE == <<240, 80, 40>>
BlueElectronBase == <<80, 130, 255>>
BlueElectronHi == <<180, 200, 255>>
OrangeElectronBase == <<255, 160, 30>>
OrangeElectronHi == <<255, 220, 140>>

Palette ==
    {BLUE, PURPLE, PINK, ORANGE, RED_ORANGE, BlueElectronBase, BlueElectronHi,
     OrangeElectronBase, OrangeElectronHi, <<0, 0, 0>>, <<255, 255, 255>>,
     <<0, 1, 3>>}

NoCanvas == [width |-> 0, height |-> 0, px |-> <<>>]

CompIdle ==
    /\ canvas = NoCanvas /\ cpc = "idle" /\ ck = 0 /\ font = "none"
    /\ fontAvail = <<>> /\ tried = <<>> /\ rng = 0 /\ sparkle_colors = <<>>
    /\ paintLog = <<>> /\ run = 0 /\ firstColors = <<>> /\ rngAtEntry = <<>>

NoImage == [width |-> 0, height |-> 0, px |-> <<>>]

MainIdle ==
    /\ mpc = "idle" /\ mk = 0 /\ master = NoImage /\ composed = NoImage
    /\ composeCalls = 0 /\ written = <<>> /\ doneReported = FALSE

IcoIdle ==
    /\ images = <<>> /\ num_images = 0 /\ header = <<>>
    /\ image_data_list = <<>> /\ directory = <<>> /\ current_offset = 0
    /\ ii = 0 /\ icoFile = <<>> /\ ipc = "idle"

LerpIdle ==
    /\ lc1 = <<>> /\ lc2 = <<>> /\ lt = 0 /\ largs = <<>> /\ lout = <<>>
    /\ lpc = "idle"

InitLerp ==
    /\ lc1 \in Palette
    /\ lc2 \in Palette
    /\ lt \in 0..TDen
    /\ largs = <<lc1, lc2>>
    /\ lout = <<>>
    /\ lpc = "call"
    /\ IcoIdle
    /\ CompIdle
    /\ MainIdle

LerpCall ==
    /\ lpc = "call"
    /\ lout' = lerp_color(lc1, lc2, lt)
    /\ lpc' = "returned"
    /\ UNCHANGED <<lc1, lc2, lt, largs>>
    /\ UNCHANGED <<icoVars, compVars, mainVars>>

NextLerp == LerpCall

SpecLerp == InitLerp /\ [][NextLerp]_vars

\* The exact value of a + (b - a) * t for channel k, times TDen.
LerpNum(k) == lc1[k] * TDen + (lc2[k] - lc1[k]) * lt

\* C4 (as stated): every channel of the result is the linear interpolation
\* rounded to the nearest integer, i.e. within 1/2 of the exact value.  Ties
\* are allowed either way, so only a result that is NOT a nearest integer
\* violates this.
C4_RoundedToNearest ==
    lpc = "returned" =>
        \A k \in 1..Len(lout) : 2 * Abs(TDen * lout[k] - LerpNum(k)) <= TDen

\* C4 (amended): t = 0 returns c1, t = 1 returns c2, t = 1/2 returns the
\* channel-wise average rounded DOWN, in general each channel is the linear
\* interpolation truncated toward zero (the largest integer not above it, the
\* value being non-negative), and the arguments are not modified.
C4_Truncates ==
    lpc = "returned" =>
        /\ Len(lout) = 3
        /\ lt = 0 => lout = lc1
        /\ lt = TDen => lout = lc2
        /\ 2 * lt = TDen =>
              \A k \in 1..3 : lout[k] = (lc1[k] + lc2[k]) \div 2
        /\ \A k \in 1..3 :
              /\ TDen * lout[k] <= LerpNum(k)
              /\ LerpNum(k) < TDen * (lout[k] + 1)
              /\ lout[k] \in 0..255
        /\ <<lc1, lc2>> = largs

\* A call at t = 1/2 on a channel pair with an odd sum: truncation and
\* rounding half up differ there.
C4_Witness ==
    /\ lpc = "returned"
    /\ 2 * lt = TDen
    /\ \E k \in 1..3 : (lc1[k] + lc2[k]) % 2 = 1

-----------------------------------------------------------------------------
(* Images, resampling and PNG payloads *)

SIZE == 1024

\* The glyph resources create_nebula_icon may end up with (lines 138-146).
Candidates ==
    <<"consola.ttf", "cour.ttf", "C:/Windows/Fonts/consola.ttf">>

Fonts == Range(Candidates) \cup {"default"}

FontId(f) ==
    CASE f = "consola.ttf" -> 1
      [] f = "cour.ttf" -> 2
      [] f = "C:/Windows/Fonts/consola.ttf" -> 3
      [] OTHER -> 4

\* An image is its dimensions and its pixel content; the content is kept
\* as a short byte string.  The master's content depends on the glyph
\* resource that was used to draw it.
MasterOf(f) == [width |-> SIZE, height |-> SIZE, px |-> <<FontId(f)>>]

\* Image.resize((s, s), LANCZOS): the content of the result is a function
\* of the source content and of the size, and grows with the size.
Resample(px, s) == px \o [k \in 1..(s \div 64) |-> s % 256]

ResizeWidthOnly(img, s) == [width |-> s, height |-> img.height,
                               px |-> Resample(img.px, s)]

Resize(img, s) == [width |-> s, height |-> s, px |-> Resample(img.px, s)]

BE16(n) == <<(n \div 256) % 256, n % 256>>

\* img.save(buf, format="PNG"): signature, dimensions, pixel data.
PngEncode(img) ==
    <<137, 80, 78, 71>> \o BE16(img.width) \o BE16(img.height) \o img.px

-----------------------------------------------------------------------------
(* create_ico, lines 200-233 *)

\* struct.pack little-endian fields: "<H" and "<I".
LE16(n) == <<n % 256, (n \div 256) % 256>>

LE32(n) == <<n % 256, (n \div 256) % 256, (n \div 65536) % 256,
             (n \div 16777216) % 256>>

\* header = struct.pack("<HHH", 0, 1, num_images)
IcoHeader(n) == LE16(0) \o LE16(1) \o LE16(n)

\* dir_offset = 6 + num_images * 16
DirOffset(n) == 6 + n * 16

DimByteOffByOne(d) == IF d < 255 THEN d ELSE 0

\* w = img.width if img.width < 256 else 0
DimByte(d) == IF d < 256 THEN d ELSE 0

\* entry = struct.pack("<BBBBHHII", w, h, 0, 0, 1, 32, data_size, current_offset)
DirEntry(img, data_size, offset) ==
    <<DimByte(img.width), DimByte(img.height), 0, 0>>
        \o LE16(1) \o LE16(32) \o LE32(data_size) \o LE32(offset)

NextOffsetStuck(cur, data_size) == cur

\* current_offset += data_size
NextOffset(cur, data_size) == cur + data_size

RECURSIVE Concat(_)
Concat(list) ==
    IF list = <<>> THEN <<>> ELSE Head(list) \o Concat(Tail(list))

Reverse(list) == [k \in 1..Len(list) |-> list[Len(list) + 1 - k]]

PayloadBytesReversed(list) == Concat(Reverse(list))

\* for data in image_data_list: f.write(data)
PayloadBytes(list) == Concat(list)

\* The inputs of create_ico: every list of at most MaxImages images with
\* dimensions from DimPairs and content from PxVals, and the list main builds.
MaxImages == 3

DimPairs ==
    {<<16, 16>>, <<128, 128>>, <<255, 256>>, <<256, 256>>, <<300, 128>>}

PxVals == {<<>>, <<7>>, <<7, 9>>}

InputImages ==
    {[width |-> d[1], height |-> d[2], px |-> p] : d \in DimPairs, p \in PxVals}

ico_sizes == <<16, 24, 32, 48, 64, 128, 256>>

\* ico_images = [master.resize((s, s), Image.LANCZOS) for s in ico_sizes]
IcoImagesOf(m) == [k \in 1..Len(ico_sizes) |-> Resize(m, ico_sizes[k])]

InitIco ==
    /\ \/ \E n \in 0..MaxImages : images \in [1..n -> InputImages]
       \/ \E f \in Fonts : images = IcoImagesOf(MasterOf(f))
    /\ num_images = 0 /\ header = <<>> /\ image_data_list = <<>>
    /\ directory = <<>> /\ current_offset = 0 /\ ii = 0
    /\ icoFile = <<>> /\ ipc = "start"
    /\ LerpIdle
    /\ CompIdle
    /\ MainIdle

\* lines 203-206
IcoStart ==
    /\ ipc = "start"
    /\ num_images' = Len(images)
    /\ header' = IcoHeader(Len(images))
    /\ ipc' = "encode"
    /\ UNCHANGED <<images, image_data_list, directory, current_offset, ii,
                   icoFile>>
    /\ UNCHANGED <<lerpVars, compVars, mainVars>>

\* lines 209-218: the payloads, then the start of the directory loop
IcoEncode ==
    /\ ipc = "encode"
    /\ image_data_list' = [k \in 1..Len(images) |-> PngEncode(images[k])]
    /\ directory' = <<>>
    /\ current_offset' = DirOffset(num_images)
    /\ ii' = 1
    /\ ipc' = "dir"
    /\ UNCHANGED <<images, num_images, header, icoFile>>
    /\ UNCHANGED <<lerpVars, compVars, mainVars>>

\* lines 220-227: one iteration of the directory loop
IcoDirEntry ==
    /\ ipc = "dir"
    /\ ii <= Len(images)
    /\ LET data_size == Len(image_data_list[ii])
       IN  /\ directory' =
                 directory \o DirEntry(images[ii], data_size, current_offset)
           /\ current_offset' = NextOffset(current_offset, data_size)
    /\ ii' = ii + 1
    /\ UNCHANGED <<images, num_images, header, image_data_list, icoFile, ipc>>
    /\ UNCHANGED <<lerpVars, compVars, mainVars>>

\* lines 229-233: the three writes, all succeeding
IcoWrite ==
    /\ ipc = "dir"
    /\ ii > Len(images)
    /\ icoFile' = header \o directory \o PayloadBytes(image_data_list)
    /\ ipc' = "returned"
    /\ UNCHANGED <<images, num_images, header, image_data_list, directory,
                   current_offset, ii>>
    /\ UNCHANGED <<lerpVars, compVars, mainVars>>

\* lines 229-233: open() or a write raises; what was written before stays.
IcoWriteFails ==
    /\ ipc = "dir"
    /\ ii > Len(images)
    /\ \E k \in 0..Len(image_data_list) :
          icoFile' \in {<<>>, header, header \o directory,
                        header \o directory
                            \o PayloadBytes(SubSeq(image_data_list, 1, k))}
    /\ ipc' = "raised"
    /\ UNCHANGED <<images, num_images, header, image_data_list, directory,
                   current_offset, ii>>
    /\ UNCHANGED <<lerpVars, compVars, mainVars>>

NextIco ==
    \/ IcoStart
    \/ IcoEncode
    \/ IcoDirEntry
    \/ IcoWrite
    \/ IcoWriteFails

SpecIco == InitIco /\ [][NextIco]_vars

\* Reading the written file back (offsets from the start of the file).
U16At(f, pos) == f[pos + 1] + 256 * f[pos + 2]

U32At(f, pos) ==
    f[pos + 1] + 256 * f[pos + 2] + 65536 * f[pos + 3] + 16777216 * f[pos + 4]

EntryPos(k) == 6 + 16 * (k - 1)

EntrySize(f, k) == U32At(f, EntryPos(k) + 8)

EntryOffset(f, k) == U32At(f, EntryPos(k) + 12)

WidthByte(f, k) == f[EntryPos(k) + 1]

HeightByte(f, k) == f[EntryPos(k) + 2]

\* The reader's rule for a dimension byte: 0 means 256.
DecodeDim(b) == IF b = 0 THEN 256 ELSE b

N == Len(images)

RECURSIVE SumLen(_)
SumLen(list) == IF list = <<>> THEN 0 ELSE Len(Head(list)) + SumLen(Tail(list))

\* C1: the written file has exactly N directory entries (the count field is
\* N and the payload area starts at 6 + 16 * N), the first entry's offset is
\* 6 + 16 * N, and for every entry offset + size is the next entry's offset,
\* or the file length for the last entry; so the payload ranges are
\* contiguous, strictly increasing and disjoint.
C1_ContiguousLayout ==
    ipc = "returned" =>
        /\ Len(icoFile) >= 6 + 16 * N
        /\ U16At(icoFile, 4) = N
        /\ N >= 1 => EntryOffset(icoFile, 1) = 6 + 16 * N
        /\ \A k \in 1..N :
              /\ EntryOffset(icoFile, k) + EntrySize(icoFile, k) =
                    IF k < N THEN EntryOffset(icoFile, k + 1) ELSE Len(icoFile)
              /\ k < N => EntryOffset(icoFile, k) < EntryOffset(icoFile, k + 1)
        /\ \A j, k \in 1..N :
              j < k => EntryOffset(icoFile, j) + EntrySize(icoFile, j)
                           <= EntryOffset(icoFile, k)

\* A finished call on three images whose payloads have different lengths.
C1_Witness ==
    /\ ipc = "returned"
    /\ N = 3
    /\ EntrySize(icoFile, 1) # EntrySize(icoFile, 2)
    /\ EntrySize(icoFile, 2) # EntrySize(icoFile, 3)

\* C2: the file is the header (reserved 0, type 1, count N, little-endian),
\* N sixteen-byte entries and the N payloads in input order: the bytes that
\* entry k describes (size bytes from its offset) are the PNG encoding of
\* the k-th input image.  For the seven sizes of main the header is
\* 00 00 01 00 07 00 and the payloads fill the file after byte 6 + 7 * 16.
C2_OrderPreserving ==
    ipc = "returned" =>
        /\ SubSeq(icoFile, 1, 6) = <<0, 0, 1, 0, N % 256, N \div 256>>
        /\ Len(icoFile) = 6 + 16 * N + SumLen(image_data_list)
        /\ \A k \in 1..N :
              /\ SubSeq(icoFile, EntryOffset(icoFile, k) + 1,
                        EntryOffset(icoFile, k) + EntrySize(icoFile, k))
                    = PngEncode(images[k])
              /\ SubSeq(icoFile, EntryPos(k) + 3, EntryPos(k) + 8)
                    = <<0, 0, 1, 0, 32, 0>>
        /\ [k \in 1..N |-> images[k].width] = ico_sizes =>
              /\ SubSeq(icoFile, 1, 6) = <<0, 0, 1, 0, 7, 0>>
              /\ SumLen([k \in 1..N |-> PngEncode(images[k])])
                    = Len(icoFile) - (6 + 7 * 16)

\* A finished call on the seven images main passes.
C2_Witness ==
    /\ ipc = "returned"
    /\ N = 7
    /\ [k \in 1..N |-> images[k].width] = ico_sizes
    /\ [k \in 1..N |-> images[k].height] = ico_sizes

\* C3 (as stated): the width and height bytes of every entry decode back to
\* the image's dimensions, and the byte 0 is produced only for 256.
C3_DecodesBack ==
    ipc = "returned" =>
        \A k \in 1..N :
            /\ DecodeDim(WidthByte(icoFile, k)) = images[k].width
            /\ DecodeDim(HeightByte(icoFile, k)) = images[k].height
            /\ WidthByte(icoFile, k) = 0 => images[k].width = 256
            /\ HeightByte(icoFile, k) = 0 => images[k].height = 256

DimRule(b, d) ==
    /\ d \in 1..255 => b = d
    /\ d >= 256 => b = 0
    /\ d \in 1..256 => DecodeDim(b) = d
    /\ b = 0 <=> d >= 256

\* C3 (amended): a dimension in 1..255 is encoded as itself and 256 as 0,
\* so every dimension in 1..256 decodes back; a dimension above 256 is
\* encoded as 0 too, so the byte 0 is produced exactly for dimensions of 256
\* or more.
C3_DimBytes ==
    ipc = "returned" =>
        \A k \in 1..N :
            /\ DimRule(WidthByte(icoFile, k), images[k].width)
            /\ DimRule(HeightByte(icoFile, k), images[k].height)

\* A finished call with a 255 x 256 image, a 128 x 128 one and one 300 wide.
C3_Witness ==
    /\ ipc = "returned"
    /\ \E i, j, k \in 1..N :
          /\ images[i].width = 255 /\ images[i].height = 256
          /\ images[j].width = 128
          /\ images[k].width = 300

-----------------------------------------------------------------------------
(* create_nebula_icon, lines 94-197 *)

\* The canvas is followed at sample pixels.  Each sample is a pixel of the
\* 1024 x 1024 grid together with the strokes that pass over it: the back
\* and front half-arcs (by orbital), the sparkle, and the coverage (0..255)
\* the rasterized glyph gives it in the shadow copy and in the foreground
\* copy.  bigOnly marks glyph coverage that exists only with a 240-px
\* TrueType face, not with the small built-in one.  Coverage by the filled
\* circles is computed from the coordinates.
Samples ==
    [corner    |-> [x |-> 0,   y |-> 0,   back |-> {},     front |-> {},
                    shadow |-> 0,   glyph |-> 0,   bigOnly |-> FALSE, sparkle |-> 0],
     bgOnly    |-> [x |-> 512, y |-> 40,  back |-> {},     front |-> {},
                    shadow |-> 0,   glyph |-> 0,   bigOnly |-> FALSE, sparkle |-> 0],
     back3     |-> [x |-> 516, y |-> 166, back |-> {3},    front |-> {},
                    shadow |-> 0,   glyph |-> 0,   bigOnly |-> FALSE, sparkle |-> 0],
     back12    |-> [x |-> 498, y |-> 366, back |-> {1, 2}, front |-> {},
                    shadow |-> 0,   glyph |-> 0,   bigOnly |-> FALSE, sparkle |-> 0],
     back1f2   |-> [x |-> 286, y |-> 512, back |-> {1},    front |-> {2},
                    shadow |-> 0,   glyph |-> 0,   bigOnly |-> FALSE, sparkle |-> 0],
     front1    |-> [x |-> 216, y |-> 690, back |-> {},     front |-> {1},
                    shadow |-> 0,   glyph |-> 0,   bigOnly |-> FALSE, sparkle |-> 0],
     glyphF23  |-> [x |-> 378, y |-> 572, back |-> {},     front |-> {2, 3},
                    shadow |-> 255, glyph |-> 255, bigOnly |-> TRUE,  sparkle |-> 0],
     glyph     |-> [x |-> 512, y |-> 492, back |-> {},     front |-> {},
                    shadow |-> 255, glyph |-> 255, bigOnly |-> FALSE, sparkle |-> 0],
     rim       |-> [x |-> 515, y |-> 495, back |-> {},     front |-> {},
                    shadow |-> 255, glyph |-> 0,   bigOnly |-> FALSE, sparkle |-> 0],
     rimEdge   |-> [x |-> 516, y |-> 496, back |-> {},     front |-> {},
                    shadow |-> 128, glyph |-> 0,   bigOnly |-> FALSE, sparkle |-> 0],
     glowOuter |-> [x |-> 212, y |-> 558, back |-> {},     front |-> {},
                    shadow |-> 0,   glyph |-> 0,   bigOnly |-> FALSE, sparkle |-> 0],
     glowInner |-> [x |-> 274, y |-> 569, back |-> {},     front |-> {},
                    shadow |-> 0,   glyph |-> 0,   bigOnly |-> FALSE, sparkle |-> 0],
     body1b1   |-> [x |-> 228, y |-> 584, back |-> {1},    front |-> {},
                    shadow |-> 0,   glyph |-> 0,   bigOnly |-> FALSE, sparkle |-> 0],
     spec1     |-> [x |-> 237, y |-> 562, back |-> {},     front |-> {},
                    shadow |-> 0,   glyph |-> 0,   bigOnly |-> FALSE, sparkle |-> 0],
     spec2f3   |-> [x |-> 421, y |-> 765, back |-> {},     front |-> {3},
                    shadow |-> 0,   glyph |-> 0,   bigOnly |-> FALSE, sparkle |-> 0],
     glow2f3   |-> [x |-> 410, y |-> 744, back |-> {},     front |-> {3},
                    shadow |-> 0,   glyph |-> 0,   bigOnly |-> FALSE, sparkle |-> 0],
     sparkle1  |-> [x |-> 180, y |-> 200, back |-> {},     front |-> {},
                    shadow |-> 0,   glyph |-> 0,   bigOnly |-> FALSE, sparkle |-> 1],
     sparkle11 |-> [x |-> 600, y |-> 133, back |-> {},     front |-> {},
                    shadow |-> 0,   glyph |-> 0,   bigOnly |-> FALSE, sparkle |-> 11]]

SampleNames == DOMAIN Samples

\* A pixel's value: its alpha channel and the layer that wrote it last.
Pixel(a, l) == [alpha |-> a, layer |-> l]

Layer(kind, k) == <<kind, k>>

\* ImageDraw on an "RGBA" image does not blend: ellipse() and line() store
\* the fill, alpha included, in every pixel they cover.  A fill given as an
\* RGB triple has alpha 255.  Circles are compared in tenths of a pixel.
InCircle(smp, cx10, cy10, r) ==
    (10 * smp.x - cx10) * (10 * smp.x - cx10)
        + (10 * smp.y - cy10) * (10 * smp.y - cy10) <= 100 * r * r

Ellipse(px, cx10, cy10, r, a, l) ==
    [n \in DOMAIN px |->
        IF InCircle(Samples[n], cx10, cy10, r) THEN Pixel(a, l) ELSE px[n]]

\* draw_orbital -> draw_thick_arc: 200 opaque line segments along one half
\* of orbital k (lines 26-56).
Stroke(px, half, k, l) ==
    [n \in DOMAIN px |->
        IF k \in Samples[n][half] THEN Pixel(255, l) ELSE px[n]]

\* draw.text(): the fill is mixed into the pixel, alpha included, in
\* proportion to the glyph's coverage m: old + (fill - old) * m / 255.
GlyphCoverage(smp, copy, f) ==
    IF smp.bigOnly /\ f = "default" THEN 0 ELSE smp[copy]

Text(px, copy, f, a, l) ==
    [n \in DOMAIN px |->
        LET m == GlyphCoverage(Samples[n], copy, f)
        IN  IF m = 0 THEN px[n]
            ELSE Pixel((px[n].alpha * (255 - m) + a * m) \div 255, l)]

\* draw_sparkle: four opaque 1-px lines through (x, y) (lines 81-91).
Sparkle(px, k, l) ==
    [n \in DOMAIN px |->
        IF Samples[n].sparkle = k THEN Pixel(255, l) ELSE px[n]]

\* lines 102-108: for r in range(SIZE // 2, 0, -1), each ring an opaque
\* filled circle about the centre.  Every iteration stores the same alpha,
\* so the loop leaves a covered pixel with alpha 255 whichever ring covered
\* it last; a pixel no ring covers keeps its value.
BackgroundLoop(px, rmax) ==
    [n \in DOMAIN px |->
        IF \E r \in 1..rmax :
              InCircle(Samples[n], 10 * (SIZE \div 2), 10 * (SIZE \div 2), r)
        THEN Pixel(255, Layer("background", 0))
        ELSE px[n]]

\* electrons (lines 168-172) with the centres int(px), int(py) of lines
\* 175-182: (244, 569) on orbital 0 and (428, 772) on orbital 2.
electrons ==
    <<[cx |-> 244, cy |-> 569, radius |-> 22],
      [cx |-> 428, cy |-> 772, radius |-> 22]>>

\* int(60 * (1 - (r - radius) / 12)) for r - radius = 1..12, as double
\* arithmetic evaluates it (three values fall one short of 5 * (12 - k)).
GlowAlphaTable == <<55, 50, 45, 40, 34, 30, 24, 20, 15, 9, 5, 0>>

GlowAlpha(k) == GlowAlphaTable[k]

\* lines 63-66: for r in range(radius + 12, radius, -1)
RECURSIVE GlowLoop(_, _, _, _)
GlowLoop(px, e, r, l) ==
    IF r = e.radius THEN px
    ELSE GlowLoop(
             Ellipse(px, 10 * e.cx, 10 * e.cy, r, GlowAlpha(r - e.radius), l),
             e, r - 1, l)

\* lines 68-71: the fill is the RGB triple lerp_color returns
RECURSIVE BodyLoop(_, _, _, _)
BodyLoop(px, e, r, l) ==
    IF r = 0 THEN px
    ELSE BodyLoop(Ellipse(px, 10 * e.cx, 10 * e.cy, r, 255, l), e, r - 1, l)

\* int(200 * (1 - r2 / hr)) with hr = radius * 0.35
SpecularAlpha(r2, radius) ==
    IntTrunc(200 * (35 * radius - 100 * r2), 35 * radius)

\* lines 73-78: centre (cx - 0.3 * radius, cy - 0.3 * radius),
\* for r2 in range(int(hr), 0, -1)
RECURSIVE SpecularLoop(_, _, _, _)
SpecularLoop(px, e, r2, l) ==
    IF r2 = 0 THEN px
    ELSE SpecularLoop(
             Ellipse(px, 10 * e.cx - 3 * e.radius, 10 * e.cy - 3 * e.radius,
                     r2, SpecularAlpha(r2, e.radius), l),
             e, r2 - 1, l)

\* draw_sphere, lines 59-78
draw_sphere(px, e, l) ==
    SpecularLoop(
        BodyLoop(GlowLoop(px, e, e.radius + 12, l), e, e.radius, l),
        e, (35 * e.radius) \div 100, l)

\* The process-wide generator of the random module: a state, a seeding
\* function that replaces the state by one that depends on the seed alone,
\* and a draw that is a function of the state.
RngMod == 7

RngStates == 0..(RngMod - 1)

RngNext(st) == ((3 * st) + 1) % RngMod

SeedUnseeded(st, seed) == st

\* random.seed(42)
Seed(st, seed) == seed % RngMod

\* random.randint(lo, hi)
RandInt(st, lo, hi) == lo + ((13 * RngNext(st)) % (hi - lo + 1))

NumOrbitals == 3

NumSparkles == 12

StepAfterFrontFirst(stage) ==
    CASE stage = "new" -> "background"
      [] stage = "background" -> "back"
      [] stage = "back" -> "front"
      [] stage = "front" -> "font"
      [] stage = "font" -> "shadow"
      [] stage = "shadow" -> "glyph"
      [] stage = "glyph" -> "sphere"
      [] stage = "sphere" -> "seed"
      [] stage = "seed" -> "sparkle"
      [] stage = "sparkle" -> "returned"

\* The order of the statements of create_nebula_icon.
StepAfter(stage) ==
    CASE stage = "new" -> "background"
      [] stage = "background" -> "back"
      [] stage = "back" -> "font"
      [] stage = "font" -> "shadow"
      [] stage = "shadow" -> "glyph"
      [] stage = "glyph" -> "front"
      [] stage = "front" -> "sphere"
      [] stage = "sphere" -> "seed"
      [] stage = "seed" -> "sparkle"
      [] stage = "sparkle" -> "returned"

CaughtNothing(exc) == FALSE

\* except (OSError, IOError)
Caught(exc) == exc \in {"OSError", "IOError"}

InitCompose ==
    /\ canvas = NoCanvas
    /\ cpc = "new"
    /\ ck = 0
    /\ font = "none"
    /\ fontAvail \in [1..Len(Candidates) -> BOOLEAN]
    /\ tried = <<>>
    /\ rng \in RngStates
    /\ sparkle_colors = <<>>
    /\ paintLog = <<>>
    /\ run = 1
    /\ firstColors = <<>>
    /\ rngAtEntry = <<>>
    /\ LerpIdle
    /\ IcoIdle
    /\ MainIdle

Paint(px, l) ==
    /\ canvas' = [canvas EXCEPT !.px = px]
    /\ paintLog' = Append(paintLog, l)

\* lines 96-99: Image.new("RGBA", (SIZE, SIZE), (0, 0, 0, 255))
NewCanvas ==
    /\ cpc = "new"
    /\ canvas' = [width |-> SIZE, height |-> SIZE,
                  px |-> [n \in SampleNames |-> Pixel(255, Layer("fill", 0))]]
    /\ rngAtEntry' = Append(rngAtEntry, rng)
    /\ cpc' = StepAfter("new")
    /\ UNCHANGED <<ck, font, fontAvail, tried, rng, sparkle_colors, paintLog,
                   run, firstColors>>
    /\ UNCHANGED <<lerpVars, icoVars, mainVars>>

\* lines 102-108: the whole loop of filled circles, r = 512 down to 1
DrawBackground ==
    /\ cpc = "background"
    /\ Paint(BackgroundLoop(canvas.px, SIZE \div 2), Layer("background", 0))
    /\ cpc' = StepAfter("background")
    /\ ck' = 1
    /\ UNCHANGED <<font, fontAvail, tried, rng, sparkle_colors, run,
                   firstColors, rngAtEntry>>
    /\ UNCHANGED <<lerpVars, icoVars, mainVars>>

\* lines 129-132: the back half (180..360) of orbital ck
DrawBackHalf ==
    /\ cpc = "back"
    /\ ck <= NumOrbitals
    /\ Paint(Stroke(canvas.px, "back", ck, Layer("back", ck)), Layer("back", ck))
    /\ IF ck = NumOrbitals
          THEN cpc' = StepAfter("back") /\ ck' = 1
          ELSE cpc' = cpc /\ ck' = ck + 1
    /\ UNCHANGED <<font, fontAvail, tried, rng, sparkle_colors, run,
                   firstColors, rngAtEntry>>
    /\ UNCHANGED <<lerpVars, icoVars, mainVars>>

\* lines 137-144: ImageFont.truetype(candidate ck) succeeds
FontLoaded ==
    /\ cpc = "font"
    /\ ck <= Len(Candidates)
    /\ fontAvail[ck]
    /\ tried' = Append(tried, Candidates[ck])
    /\ font' = Candidates[ck]
    /\ cpc' = StepAfter("font")
    /\ ck' = 1
    /\ UNCHANGED <<canvas, fontAvail, rng, sparkle_colors, paintLog, run,
                   firstColors, rngAtEntry>>
    /\ UNCHANGED <<lerpVars, icoVars, mainVars>>

\* lines 137-145: ImageFont.truetype(candidate ck) raises OSError; the
\* except clause decides whether the next candidate is tried.
FontUnavailable ==
    /\ cpc = "font"
    /\ ck <= Len(Candidates)
    /\ ~fontAvail[ck]
    /\ tried' = Append(tried, Candidates[ck])
    /\ IF Caught("OSError")
          THEN cpc' = cpc /\ ck' = ck + 1
          ELSE cpc' = "raised" /\ ck' = ck
    /\ UNCHANGED <<canvas, font, fontAvail, rng, sparkle_colors, paintLog,
                   run, firstColors, rngAtEntry>>
    /\ UNCHANGED <<lerpVars, icoVars, mainVars>>

\* line 146: font = ImageFont.load_default()
FontDefault ==
    /\ cpc = "font"
    /\ ck > Len(Candidates)
    /\ font' = "default"
    /\ cpc' = StepAfter("font")
    /\ ck' = 1
    /\ UNCHANGED <<canvas, fontAvail, tried, rng, sparkle_colors, paintLog,
                   run, firstColors, rngAtEntry>>
    /\ UNCHANGED <<lerpVars, icoVars, mainVars>>

\* lines 148-157: the shadow copy, fill (0, 0, 0, 180)
DrawShadow ==
    /\ cpc = "shadow"
    /\ font # "none"
    /\ Paint(Text(canvas.px, "shadow", font, 180, Layer("shadow", 0)),
             Layer("shadow", 0))
    /\ cpc' = StepAfter("shadow")
    /\ UNCHANGED <<ck, font, fontAvail, tried, rng, sparkle_colors, run,
                   firstColors, rngAtEntry>>
    /\ UNCHANGED <<lerpVars, icoVars, mainVars>>

\* line 158: the foreground copy, fill (230, 230, 240, 255)
DrawGlyph ==
    /\ cpc = "glyph"
    /\ font # "none"
    /\ Paint(Text(canvas.px, "glyph", font, 255, Layer("glyph", 0)),
             Layer("glyph", 0))
    /\ cpc' = StepAfter("glyph")
    /\ ck' = 1
    /\ UNCHANGED <<font, fontAvail, tried, rng, sparkle_colors, run,
                   firstColors, rngAtEntry>>
    /\ UNCHANGED <<lerpVars, icoVars, mainVars>>

\* lines 161-164: the front half (0..180) of orbital ck
DrawFrontHalf ==
    /\ cpc = "front"
    /\ ck <= NumOrbitals
    /\ Paint(Stroke(canvas.px, "front", ck, Layer("front", ck)),
             Layer("front", ck))
    /\ IF ck = NumOrbitals
          THEN cpc' = StepAfter("front") /\ ck' = 1
          ELSE cpc' = cpc /\ ck' = ck + 1
    /\ UNCHANGED <<font, fontAvail, tried, rng, sparkle_colors, run,
                   firstColors, rngAtEntry>>
    /\ UNCHANGED <<lerpVars, icoVars, mainVars>>

\* lines 174-182: draw_sphere for electron ck
DrawSphere ==
    /\ cpc = "sphere"
    /\ ck <= Len(electrons)
    /\ Paint(draw_sphere(canvas.px, electrons[ck], Layer("sphere", ck)),
             Layer("sphere", ck))
    /\ IF ck = Len(electrons)
          THEN cpc' = StepAfter("sphere") /\ ck' = 1
          ELSE cpc' = cpc /\ ck' = ck + 1
    /\ UNCHANGED <<font, fontAvail, tried, rng, sparkle_colors, run,
                   firstColors, rngAtEntry>>
    /\ UNCHANGED <<lerpVars, icoVars, mainVars>>

\* lines 185-186: random.seed(42)
SeedRandom ==
    /\ cpc = "seed"
    /\ rng' = Seed(rng, 42)
    /\ cpc' = StepAfter("seed")
    /\ ck' = 1
    /\ UNCHANGED <<canvas, font, fontAvail, tried, sparkle_colors, paintLog,
                   run, firstColors, rngAtEntry>>
    /\ UNCHANGED <<lerpVars, icoVars, mainVars>>

\* lines 193-195: one randint draw, then draw_sparkle for position ck
DrawSparkle ==
    /\ cpc = "sparkle"
    /\ ck <= NumSparkles
    /\ sparkle_colors' =
          Append(sparkle_colors, <<255, 255, RandInt(rng, 180, 255)>>)
    /\ rng' = RngNext(rng)
    /\ Paint(Sparkle(canvas.px, ck, Layer("sparkle", ck)), Layer("sparkle", ck))
    /\ IF ck = NumSparkles
          THEN cpc' = StepAfter("sparkle") /\ ck' = 0
          ELSE cpc' = cpc /\ ck' = ck + 1
    /\ UNCHANGED <<font, fontAvail, tried, run, firstColors, rngAtEntry>>
    /\ UNCHANGED <<lerpVars, icoVars, mainVars>>

\* Other code of the process draws from the shared generator between two
\* calls of create_nebula_icon.
RandomUsedElsewhere ==
    /\ cpc = "returned"
    /\ run = 1
    /\ rng' = RngNext(rng)
    /\ UNCHANGED <<canvas, cpc, ck, font, fontAvail, tried, sparkle_colors,
                   paintLog, run, firstColors, rngAtEntry>>
    /\ UNCHANGED <<lerpVars, icoVars, mainVars>>

\* A second call of create_nebula_icon in the same process: its locals
\* start afresh, the generator keeps its state.
CallAgain ==
    /\ cpc = "returned"
    /\ run = 1
    /\ run' = 2
    /\ firstColors' = sparkle_colors
    /\ canvas' = NoCanvas
    /\ cpc' = "new"
    /\ ck' = 0
    /\ font' = "none"
    /\ tried' = <<>>
    /\ sparkle_colors' = <<>>
    /\ paintLog' = <<>>
    /\ UNCHANGED <<fontAvail, rng, rngAtEntry>>
    /\ UNCHANGED <<lerpVars, icoVars, mainVars>>

NextCompose ==
    \/ NewCanvas
    \/ DrawBackground
    \/ DrawBackHalf
    \/ FontLoaded
    \/ FontUnavailable
    \/ FontDefault
    \/ DrawShadow
    \/ DrawGlyph
    \/ DrawFrontHalf
    \/ DrawSphere
    \/ SeedRandom
    \/ DrawSparkle
    \/ RandomUsedElsewhere
    \/ CallAgain

SpecCompose == InitCompose /\ [][NextCompose]_vars

IsPrefix(a, b) == Len(a) <= Len(b) /\ a = SubSeq(b, 1, Len(a))

\* C5 (as stated): the returned canvas is 1024 x 1024 and every pixel of it
\* has alpha 255.
C5_FullyOpaque ==
    cpc = "returned" =>
        /\ canvas.width = 1024
        /\ canvas.height = 1024
        /\ \A n \in SampleNames : canvas.px[n].alpha = 255

RECURSIVE Iterate(_, _)
Iterate(st, n) == IF n = 0 THEN st ELSE Iterate(RngNext(st), n - 1)

\* C6: every sparkle colour is (255, 255, b) with b in 180..255; the
\* generator is seeded with 42 before the first draw and advanced exactly
\* once per sparkle; a call returns twelve colours; and the second call of a
\* process returns the same twelve as the first, whatever state the
\* generator was in when either call started.
C6_SameSparkleColors ==
    /\ \A k \in 1..Len(sparkle_colors) :
          /\ sparkle_colors[k][1] = 255
          /\ sparkle_colors[k][2] = 255
          /\ sparkle_colors[k][3] \in 180..255
    /\ cpc \in {"seed", "new", "background", "back", "font", "shadow",
                "glyph", "front", "sphere"} => sparkle_colors = <<>>
    /\ cpc = "sparkle" =>
          /\ Len(sparkle_colors) = ck - 1
          /\ rng = Iterate(42 % RngMod, Len(sparkle_colors))
    /\ cpc = "returned" => Len(sparkle_colors) = 12
    /\ (run = 2 /\ cpc = "returned") => sparkle_colors = firstColors

\* A second call that has returned, where the two calls started with
\* different generator states, neither of them the seeded one.
C6_Witness ==
    /\ run = 2
    /\ cpc = "returned"
    /\ Len(rngAtEntry) = 2
    /\ rngAtEntry[1] # rngAtEntry[2]
    /\ rngAtEntry[1] # 42 % RngMod
    /\ rngAtEntry[2] # 42 % RngMod

ExpectedOrder ==
    <<Layer("background", 0)>>
        \o [k \in 1..3 |-> Layer("back", k)]
        \o <<Layer("shadow", 0), Layer("glyph", 0)>>
        \o [k \in 1..3 |-> Layer("front", k)]
        \o [k \in 1..2 |-> Layer("sphere", k)]
        \o [k \in 1..12 |-> Layer("sparkle", k)]

\* Whether layer l paints sample n at all (with glyph resource f).
Touches(n, l, f) ==
    LET smp == Samples[n]
    IN  CASE l[1] = "background" -> InCircle(smp, 5120, 5120, 512)
          [] l[1] = "back" -> l[2] \in smp.back
          [] l[1] = "shadow" -> GlyphCoverage(smp, "shadow", f) > 0
          [] l[1] = "glyph" -> GlyphCoverage(smp, "glyph", f) > 0
          [] l[1] = "front" -> l[2] \in smp.front
          [] l[1] = "sphere" ->
                InCircle(smp, 10 * electrons[l[2]].cx, 10 * electrons[l[2]].cy,
                         electrons[l[2]].radius + 12)
          [] l[1] = "sparkle" -> smp.sparkle = l[2]

LatestTouching(n, f) ==
    LET idx == {k \in 1..Len(ExpectedOrder) : Touches(n, ExpectedOrder[k], f)}
    IN  IF idx = {} THEN Layer("fill", 0)
        ELSE ExpectedOrder[CHOOSE k \in idx : \A j \in idx : j <= k]

\* C8: the layers are painted in the fixed order background, back halves
\* 1..3, shadow, glyph, front halves 1..3, spheres 1..2, sparkles 1..12,
\* each one after the previous one is complete; and when the call returns
\* every pixel holds what the latest layer (in that order) that touches it
\* wrote.
C8_LayerOrder ==
    /\ IsPrefix(paintLog, ExpectedOrder)
    /\ cpc = "returned" =>
          /\ paintLog = ExpectedOrder
          /\ \A n \in SampleNames :
                canvas.px[n].layer = LatestTouching(n, font)

\* A returned call with a TrueType face: the glyph pixel under front arcs
\* 2 and 3 ends as front arc 3, the body pixel over back arc 1 as sphere 1.
C8_Witness ==
    /\ cpc = "returned"
    /\ font # "default"
    /\ canvas.px["glyphF23"].layer = Layer("front", 3)
    /\ canvas.px["body1b1"].layer = Layer("sphere", 1)
    /\ canvas.px["sparkle11"].layer = Layer("sparkle", 11)

FirstAvailable ==
    IF \E k \in 1..3 : fontAvail[k]
    THEN CHOOSE k \in 1..3 : fontAvail[k] /\ \A j \in 1..(k - 1) : ~fontAvail[j]
    ELSE 0

\* C9: loading the glyph resource never aborts the composition.  The
\* candidates are tried in the order consola.ttf, cour.ttf,
\* C:/Windows/Fonts/consola.ttf, one only after every earlier one failed;
\* the first that loads is used; if none loads the built-in default is
\* used; and in every case a font is selected and drawing goes on.
C9_FontFallback ==
    /\ cpc # "raised"
    /\ IsPrefix(tried, <<"consola.ttf", "cour.ttf",
                         "C:/Windows/Fonts/consola.ttf">>)
    /\ \A k \in 1..Len(tried) : \A j \in 1..(k - 1) : ~fontAvail[j]
    /\ font # "none" =>
          /\ font = IF FirstAvailable = 0 THEN "default"
                    ELSE Candidates[FirstAvailable]
          /\ Len(tried) = IF FirstAvailable = 0 THEN 3 ELSE FirstAvailable
    /\ cpc \in {"shadow", "glyph", "front", "sphere", "seed", "sparkle",
                "returned"} => font # "none"
    /\ cpc = "font" => ENABLED (FontLoaded \/ FontUnavailable \/ FontDefault)
    /\ cpc = "returned" =>
          \E k \in 1..Len(paintLog) : paintLog[k] = Layer("glyph", 0)

\* A returned call on a machine where none of the three candidates loads.
C9_Witness ==
    /\ cpc = "returned"
    /\ font = "default"
    /\ Len(tried) = 3
    /\ \A k \in 1..3 : ~fontAvail[k]

-----------------------------------------------------------------------------
(* main, lines 236-294 *)

\* The sizes table (lines 248-264), in insertion order.
sizes ==
    <<[filename |-> "32x32.png", size |-> 32],
      [filename |-> "64x64.png", size |-> 64],
      [filename |-> "128x128.png", size |-> 128],
      [filename |-> "128x128@2x.png", size |-> 256],
      [filename |-> "Square30x30Logo.png", size |-> 30],
      [filename |-> "Square44x44Logo.png", size |-> 44],
      [filename |-> "Square71x71Logo.png", size |-> 71],
      [filename |-> "Square89x89Logo.png", size |-> 89],
      [filename |-> "Square107x107Logo.png", size |-> 107],
      [filename |-> "Square142x142Logo.png", size |-> 142],
      [filename |-> "Square150x150Logo.png", size |-> 150],
      [filename |-> "Square284x284Logo.png", size |-> 284],
      [filename |-> "Square310x310Logo.png", size |-> 310],
      [filename |-> "StoreLogo.png", size |-> 50]>>

RECURSIVE DirectoryOf(_, _, _)
DirectoryOf(imgs, data, offset) ==
    IF imgs = <<>> THEN <<>>
    ELSE DirEntry(Head(imgs), Len(Head(data)), offset)
             \o DirectoryOf(Tail(imgs), Tail(data),
                            NextOffset(offset, Len(Head(data))))

\* create_ico as a function of its argument: the bytes it writes.
create_ico(imgs) ==
    LET data == [k \in 1..Len(imgs) |-> PngEncode(imgs[k])]
    IN  IcoHeader(Len(imgs))
            \o DirectoryOf(imgs, data, DirOffset(Len(imgs)))
            \o PayloadBytes(data)

File(path, format, bytes) == [path |-> path, format |-> format, bytes |-> bytes]

\* The write steps of main, in program order.
WriteStages == {"makedirs", "save_master", "sizes", "ico", "icns", "app_icon"}

AfterFailureContinue(stage) ==
    CASE stage = "makedirs" -> "save_master"
      [] stage = "save_master" -> "sizes"
      [] stage = "sizes" -> "ico"
      [] stage = "ico" -> "icns"
      [] stage = "icns" -> "app_icon"
      [] stage = "app_icon" -> "report"

\* main has no try: an exception raised by a step ends the run.
AfterFailure(stage) == "aborted"

InitMain ==
    /\ mpc = "compose"
    /\ mk = 0
    /\ master = NoImage
    /\ composed = NoImage
    /\ composeCalls = 0
    /\ written = <<>>
    /\ doneReported = FALSE
    /\ LerpIdle
    /\ IcoIdle
    /\ CompIdle

\* lines 237-238: master = create_nebula_icon(); its content depends on
\* the glyph resource the fallback chain ended with.
MainCompose ==
    /\ mpc = "compose"
    /\ \E f \in Fonts :
          /\ master' = MasterOf(f)
          /\ composed' = MasterOf(f)
    /\ composeCalls' = composeCalls + 1
    /\ mpc' = "makedirs"
    /\ UNCHANGED <<mk, written, doneReported>>
    /\ UNCHANGED <<lerpVars, icoVars, compVars>>

\* line 240: os.makedirs(ICONS_DIR, exist_ok=True)
MainMakedirs ==
    /\ mpc = "makedirs"
    /\ mpc' = "save_master"
    /\ UNCHANGED <<mk, master, composed, composeCalls, written, doneReported>>
    /\ UNCHANGED <<lerpVars, icoVars, compVars>>

\* lines 243-245: master.save(master_path, "PNG")
MainSaveMaster ==
    /\ mpc = "save_master"
    /\ written' = Append(written, File("icon.png", "PNG", PngEncode(master)))
    /\ mpc' = "sizes"
    /\ mk' = 1
    /\ UNCHANGED <<master, composed, composeCalls, doneReported>>
    /\ UNCHANGED <<lerpVars, icoVars, compVars>>

\* lines 266-270: one iteration of the loop over sizes
MainSaveSize ==
    /\ mpc = "sizes"
    /\ mk <= Len(sizes)
    /\ LET resized == Resize(master, sizes[mk].size)
       IN  written' =
               Append(written, File(sizes[mk].filename, "PNG", PngEncode(resized)))
    /\ IF mk = Len(sizes)
          THEN mpc' = "ico" /\ mk' = 0
          ELSE mpc' = mpc /\ mk' = mk + 1
    /\ UNCHANGED <<master, composed, composeCalls, doneReported>>
    /\ UNCHANGED <<lerpVars, icoVars, compVars>>

\* lines 273-277: the seven resized images, then create_ico
MainSaveIco ==
    /\ mpc = "ico"
    /\ written' =
          Append(written, File("icon.ico", "ICO", create_ico(IcoImagesOf(master))))
    /\ mpc' = "icns"
    /\ UNCHANGED <<mk, master, composed, composeCalls, doneReported>>
    /\ UNCHANGED <<lerpVars, icoVars, compVars>>

\* lines 282-287: a 512 x 512 PNG under the name icon.icns
MainSaveIcns ==
    /\ mpc = "icns"
    /\ LET icns_source == Resize(master, 512)
       IN  written' =
               Append(written, File("icon.icns", "PNG", PngEncode(icns_source)))
    /\ mpc' = "app_icon"
    /\ UNCHANGED <<mk, master, composed, composeCalls, doneReported>>
    /\ UNCHANGED <<lerpVars, icoVars, compVars>>

\* lines 290-292: master.save(app_icon_path, "PNG")
MainSaveAppIcon ==
    /\ mpc = "app_icon"
    /\ written' = Append(written, File("app-icon.png", "PNG", PngEncode(master)))
    /\ mpc' = "report"
    /\ UNCHANGED <<mk, master, composed, composeCalls, doneReported>>
    /\ UNCHANGED <<lerpVars, icoVars, compVars>>

\* line 294: print("\nDone! All icons generated successfully.")
MainReportDone ==
    /\ mpc = "report"
    /\ doneReported' = TRUE
    /\ mpc' = "done"
    /\ UNCHANGED <<mk, master, composed, composeCalls, written>>
    /\ UNCHANGED <<lerpVars, icoVars, compVars>>

\* Any write step (makedirs, a save, create_ico's open or write) raises
\* OSError.  The file being written is not complete.
MainStepFails ==
    /\ mpc \in WriteStages
    /\ mpc' = AfterFailure(mpc)
    /\ mk' = IF AfterFailure(mpc) = "sizes" THEN 1 ELSE 0
    /\ UNCHANGED <<master, composed, composeCalls, written, doneReported>>
    /\ UNCHANGED <<lerpVars, icoVars, compVars>>

Next ==
    \/ MainCompose
    \/ MainMakedirs
    \/ MainSaveMaster
    \/ MainSaveSize
    \/ MainSaveIco
    \/ MainSaveIcns
    \/ MainSaveAppIcon
    \/ MainReportDone
    \/ MainStepFails

Spec == InitMain /\ [][Next]_vars

PngWidth(bytes) == 256 * bytes[5] + bytes[6]

PngHeight(bytes) == 256 * bytes[7] + bytes[8]

Summary(f) ==
    [path |-> f.path, format |-> f.format,
     width |-> IF f.format = "PNG" THEN PngWidth(f.bytes) ELSE 0,
     height |-> IF f.format = "PNG" THEN PngHeight(f.bytes) ELSE 0]

Png(path, d) == [path |-> path, format |-> "PNG", width |-> d, height |-> d]

ExpectedArtifacts ==
    <<Png("icon.png", 1024),
      Png("32x32.png", 32), Png("64x64.png", 64), Png("128x128.png", 128),
      Png("128x128@2x.png", 256), Png("Square30x30Logo.png", 30),
      Png("Square44x44Logo.png", 44), Png("Square71x71Logo.png", 71),
      Png("Square89x89Logo.png", 89), Png("Square107x107Logo.png", 107),
      Png("Square142x142Logo.png", 142), Png("Square150x150Logo.png", 150),
      Png("Square284x284Logo.png", 284), Png("Square310x310Logo.png", 310),
      Png("StoreLogo.png", 50),
      [path |-> "icon.ico", format |-> "ICO", width |-> 0, height |-> 0],
      Png("icon.icns", 512),
      Png("app-icon.png", 1024)>>

\* The k-th payload of an ICO file, cut out as its directory entry says.
IcoPayload(f, k) ==
    SubSeq(f, EntryOffset(f, k) + 1, EntryOffset(f, k) + EntrySize(f, k))

\* C7: main reports success only after the whole artifact set has been
\* written, in order: icon.png at 1024, the fourteen named PNGs at their
\* sizes, icon.ico embedding 16, 24, 32, 48, 64, 128, 256 in that order,
\* icon.icns as a 512 x 512 PNG and app-icon.png at 1024.  A step that fails
\* ends the run: nothing is written afterwards, no step is enabled and
\* success is not reported.
C7_AllOrNothing ==
    /\ IsPrefix([k \in 1..Len(written) |-> Summary(written[k])],
                ExpectedArtifacts)
    /\ doneReported <=> mpc = "done"
    /\ mpc = "done" =>
          /\ Len(written) = Len(ExpectedArtifacts)
          /\ U16At(written[16].bytes, 4) = 7
          /\ \A k \in 1..7 :
                /\ PngWidth(IcoPayload(written[16].bytes, k)) = ico_sizes[k]
                /\ PngHeight(IcoPayload(written[16].bytes, k)) = ico_sizes[k]
    /\ mpc = "aborted" =>
          /\ ~doneReported
          /\ Len(written) < Len(ExpectedArtifacts)
          /\ ~ENABLED Next

\* A run that aborted in create_ico, after icon.png and the fourteen PNGs.
C7_Witness ==
    /\ mpc = "aborted"
    /\ Len(written) = 15
    /\ written[15].path = "StoreLogo.png"

DerivedSize(path) ==
    IF path = "icon.icns" THEN 512
    ELSE LET k == CHOOSE j \in 1..Len(sizes) : sizes[j].filename = path
         IN  sizes[k].size

\* C10: create_nebula_icon is called once and the master is never modified
\* afterwards.  Every derivative is the master resampled to exactly the
\* requested square size: each named PNG, the 512 x 512 icns image and each
\* of the seven ICO payloads.  Deriving the same size twice gives the same
\* image (32, 64, 128 and 256 are derived for a PNG and again for the ICO),
\* and app-icon.png, written last, has the content of icon.png, written
\* first.
C10_MasterUnchanged ==
    /\ mpc \notin {"compose", "idle"} =>
          /\ composeCalls = 1
          /\ master = composed
          /\ master.width = 1024 /\ master.height = 1024
    /\ mpc = "compose" => composeCalls = 0
    /\ \A k \in 1..Len(written) :
          LET f == written[k]
          IN  CASE f.path \in {"icon.png", "app-icon.png"} ->
                     f.bytes = PngEncode(composed)
                [] f.path = "icon.ico" ->
                     \A j \in 1..7 :
                         /\ IcoPayload(f.bytes, j)
                               = PngEncode(Resize(composed, ico_sizes[j]))
                         /\ PngWidth(IcoPayload(f.bytes, j)) = ico_sizes[j]
                         /\ PngHeight(IcoPayload(f.bytes, j)) = ico_sizes[j]
                [] OTHER ->
                     /\ f.bytes = PngEncode(Resize(composed, DerivedSize(f.path)))
                     /\ PngWidth(f.bytes) = DerivedSize(f.path)
                     /\ PngHeight(f.bytes) = DerivedSize(f.path)
    /\ mpc = "done" =>
          /\ written[18].path = "app-icon.png"
          /\ written[1].path = "icon.png"
          /\ written[18].bytes = written[1].bytes
          /\ IcoPayload(written[16].bytes, 3) = written[2].bytes
          /\ IcoPayload(written[16].bytes, 5) = written[3].bytes
          /\ IcoPayload(written[16].bytes, 6) = written[4].bytes
          /\ IcoPayload(written[16].bytes, 7) = written[5].bytes

\* A run that reached the final step with all eighteen files written.
C10_Witness ==
    /\ mpc = "done"
    /\ Len(written) = 18

=============================================================================
